---- MODULE Spec2Model ----
(***************************************************************************)
(* Bit-packed k-mers (k <= 32, encoded in uint64): the codec of kmer.go    *)
(* and the KmerCode wrapper of kmerCode.go.                                *)
(*                                                                         *)
(* A uint64 is modelled by the set of the positions of its 1 bits          *)
(* (0 = least significant, 63 = most significant), so that every shift,    *)
(* mask, negation and comparison keeps its 64-bit width.                   *)
(***************************************************************************)
EXTENDS Integers, Sequences, FiniteSets, TLC

(***************************************************************************)
(* uint64 arithmetic                                                       *)
(***************************************************************************)
WordBits == 64

BitPos == 0 .. (WordBits - 1)

Pow2(n) == 2 ^ n

\* the uint64 values of the integers 0 .. 255
U64Table == [n \in 0 .. 255 |-> {b \in 0 .. 7 : (n \div Pow2(b)) % 2 = 1}]

\* the uint64 value of a small non-negative integer (a byte, a table entry)
U64(n) == U64Table[n]

\* a 16-digit hexadecimal literal, most significant digit first
Hex(digits) ==
    {4 * (16 - j) + b : j \in 1 .. 16, b \in 0 .. 3} \cap
    {p \in BitPos : (digits[16 - (p \div 4)] \div Pow2(p % 4)) % 2 = 1}

\* x << n on uint64: bits shifted past bit 63 are lost, n >= 64 yields 0
Shl(x, n) == {p + n : p \in {q \in x : q + n < WordBits}}

\* x >> n on uint64 (logical shift)
Shr(x, n) == {p - n : p \in {q \in x : q >= n}}

And(x, y) == x \cap y

Or(x, y) == x \cup y

Xor(x, y) == (x \ y) \cup (y \ x)

\* ^x
Not(x) == BitPos \ x

SetMin(S) == CHOOSE m \in S : \A o \in S : m <= o

SetMax(S) == CHOOSE m \in S : \A o \in S : m >= o

\* x - 1 on uint64: 0 - 1 wraps to 2^64 - 1
Dec(x) ==
    IF x = {} THEN BitPos
    ELSE LET m == SetMin(x) IN (x \ {m}) \cup (0 .. (m - 1))

\* x < y on uint64
Lt(x, y) == LET d == Xor(x, y) IN d # {} /\ SetMax(d) \in y

\* x > y on uint64
Gt(x, y) == Lt(y, x)

RECURSIVE Value(_)
\* the integer value of a uint64 below 2^31
Value(x) == IF x = {} THEN 0 ELSE LET m == SetMax(x) IN Pow2(m) + Value(x \ {m})

\* x << n where the shift count n is itself a uint64: counts of 64 and more
\* yield 0
ShlBy(x, n) == IF \E p \in n : p >= 6 THEN {} ELSE Shl(x, Value(n))

\* bits.LeadingZeros64
LeadingZeros64(x) == IF x = {} THEN WordBits ELSE (WordBits - 1) - SetMax(x)

(***************************************************************************)
(* The state: the package variable MaxCode, and a caller in the manner of  *)
(* the package's tests: a buffer of bases, a k-mer window on it, the       *)
(* KmerCode the caller holds, and the last call with its arguments and     *)
(* its result.                                                             *)
(***************************************************************************)
VARIABLES
    MaxCode,    \* var MaxCode []uint64, filled by init()
    text,       \* the caller's buffer of bases (bytes)
    klen,       \* the length of the window
    pos,        \* the 0-based start of the current window in text
    kcode,      \* the KmerCode the caller holds: [Code, K]
    op,         \* the name of the last call
    arg,        \* the arguments of the last call
    ret,        \* the result of the last call
    other       \* a second k-mer of the caller's, for the calls that take two

vars == << MaxCode, text, klen, pos, kcode, op, arg, ret, other >>

(***************************************************************************)
(* kmer.go: errors and tables                                              *)
(***************************************************************************)
ErrIllegalBase == "ErrIllegalBase"

ErrKOverflow == "ErrKOverflow"

ErrPositionOverflow == "ErrPositionOverflow"

\* a distinct error value, though the source gives it the message text of
\* ErrPositionOverflow
ErrLengthOverflow == "ErrLengthOverflow"

ErrCodeOverflow == "ErrCodeOverflow"

ErrKMismatch == "ErrKMismatch"

ErrNotConsecutiveKmers == "ErrNotConsecutiveKmers"

NoError == "nil"

\* base2bit[b] is base2bitTable[b + 1]
base2bitTable ==
    << 4, 4, 4, 4, 4, 4, 4, 4, 4, 4, 4, 4, 4, 4, 4, 4,
       4, 4, 4, 4, 4, 4, 4, 4, 4, 4, 4, 4, 4, 4, 4, 4,
       4, 4, 4, 4, 4, 4, 4, 4, 4, 4, 4, 4, 4, 4, 4, 4,
       4, 4, 4, 4, 4, 4, 4, 4, 4, 4, 4, 4, 4, 4, 4, 4,
       4, 0, 1, 1, 0, 4, 4, 2, 0, 4, 4, 2, 4, 0, 0, 4,
       4, 4, 0, 1, 3, 3, 0, 0, 4, 1, 4, 4, 4, 4, 4, 4,
       4, 0, 1, 1, 0, 4, 4, 2, 0, 4, 4, 2, 4, 0, 0, 4,
       4, 4, 0, 1, 3, 3, 0, 0, 4, 1, 4, 4, 4, 4, 4, 4,
       4, 4, 4, 4, 4, 4, 4, 4, 4, 4, 4, 4, 4, 4, 4, 4,
       4, 4, 4, 4, 4, 4, 4, 4, 4, 4, 4, 4, 4, 4, 4, 4,
       4, 4, 4, 4, 4, 4, 4, 4, 4, 4, 4, 4, 4, 4, 4, 4,
       4, 4, 4, 4, 4, 4, 4, 4, 4, 4, 4, 4, 4, 4, 4, 4,
       4, 4, 4, 4, 4, 4, 4, 4, 4, 4, 4, 4, 4, 4, 4, 4,
       4, 4, 4, 4, 4, 4, 4, 4, 4, 4, 4, 4, 4, 4, 4, 4,
       4, 4, 4, 4, 4, 4, 4, 4, 4, 4, 4, 4, 4, 4, 4, 4,
       4, 4, 4, 4, 4, 4, 4, 4, 4, 4, 4, 4, 4, 4, 4, 4 >>

base2bit(b) == base2bitTable[b + 1]

\* bit2base[v] for v in 0..3: 'A', 'C', 'G', 'T'
bit2base(v) == << 65, 67, 71, 84 >>[v + 1]

\* func init(): MaxCode[i] = (1 << uint(1<<i)) - 1 for i in 1..32; the
\* slice has 33 entries and entry 0 stays 0
initMaxCode ==
    [i \in 0 .. 32 |->
        IF i = 0 THEN {} ELSE Dec(ShlBy(U64(1), Shl(U64(1), i)))]

(***************************************************************************)
(* kmer.go: Encode and Decode                                              *)
(***************************************************************************)
RECURSIVE EncodeLoopNoSentinel(_, _, _)
\* EncodeLoop gone wrong: the test is v > 4, which no entry of base2bit
\* passes, so that the sentinel 4 is added to the code like a base
EncodeLoopNoSentinel(kmer, j, st) ==
    IF j > Len(kmer) \/ st.err # NoError THEN st
    ELSE LET shifted == Shl(st.code, 2)
             v == base2bit(kmer[j])
         IN  EncodeLoopNoSentinel(kmer, j + 1,
                        IF v > 4 THEN [code |-> shifted, err |-> ErrIllegalBase]
                        ELSE [code |-> Or(shifted, U64(v)), err |-> NoError])

RECURSIVE EncodeLoop(_, _, _)
\* the loop of Encode from kmer[j] on; st is what Encode would return at
\* this point, [code, err], and the loop ends at the first error
EncodeLoop(kmer, j, st) ==
    IF j > Len(kmer) \/ st.err # NoError THEN st
    ELSE LET shifted == Shl(st.code, 2)
             v == base2bit(kmer[j])
         IN  EncodeLoop(kmer, j + 1,
                        IF v = 4 THEN [code |-> shifted, err |-> ErrIllegalBase]
                        ELSE [code |-> Or(shifted, U64(v)), err |-> NoError])

Encode(kmer) ==
    IF Len(kmer) = 0 \/ Len(kmer) > 32
    THEN [code |-> {}, err |-> ErrKOverflow]
    ELSE EncodeLoop(kmer, 1, [code |-> {}, err |-> NoError])

RECURSIVE DecodeLoopForward(_, _)
\* DecodeLoop gone wrong: the bases are written front to back, kmer[i]
DecodeLoopForward(k, st) ==
    IF st.i >= k THEN st.kmer
    ELSE DecodeLoopForward(k,
            [i |-> st.i + 1,
             code |-> Shr(st.code, 2),
             kmer |-> [st.kmer EXCEPT
                          ![st.i + 1] = bit2base(Value(And(st.code, U64(3))))]])

RECURSIVE DecodeLoop(_, _)
\* the loop of Decode and MustDecode, kmer[k-1-i] = bit2base[code&3];
\* code >>= 2, on the loop's variables st = [i, code, kmer]
DecodeLoop(k, st) ==
    IF st.i >= k THEN st.kmer
    ELSE DecodeLoop(k,
            [i |-> st.i + 1,
             code |-> Shr(st.code, 2),
             kmer |-> [st.kmer EXCEPT
                          ![k - st.i] = bit2base(Value(And(st.code, U64(3))))]])

\* make([]byte, k)
MakeBytes(k) == [j \in 1 .. k |-> 0]

MustDecode(code, k) ==
    DecodeLoop(k, [i |-> 0, code |-> code, kmer |-> MakeBytes(k)])

\* Decode panics on a bad k or a code above MaxCode[k]: panic names the
\* error, NoError when it returns
Decode(code, k) ==
    IF k <= 0 \/ k > 32 THEN [kmer |-> << >>, panic |-> ErrKOverflow]
    ELSE IF Gt(code, MaxCode[k]) THEN [kmer |-> << >>, panic |-> ErrCodeOverflow]
    ELSE [kmer |-> DecodeLoop(k, [i |-> 0, code |-> code, kmer |-> MakeBytes(k)]),
          panic |-> NoError]

(***************************************************************************)
(* kmer.go: incremental encoding                                           *)
(***************************************************************************)
\* MustEncodeFromFormerKmer gone wrong: the lower (k-1)*2 bits of leftCode
\* are not retrieved before the shift
MustEncodeFromFormerKmerNoMask(kmer, leftKmer, leftCode) ==
    LET v == base2bit(kmer[Len(kmer)])
    IN  IF v = 4 THEN [code |-> leftCode, err |-> ErrIllegalBase]
        ELSE [code |-> Or(Shl(leftCode, 2), U64(v)), err |-> NoError]

MustEncodeFromFormerKmer(kmer, leftKmer, leftCode) ==
    LET v == base2bit(kmer[Len(kmer)])
    IN  IF v = 4 THEN [code |-> leftCode, err |-> ErrIllegalBase]
        ELSE [code |-> Or(Shl(And(leftCode,
                                  Dec(Shl(U64(1), (Len(kmer) - 1) * 2))), 2),
                          U64(v)),
              err |-> NoError]

EncodeFromFormerKmer(kmer, leftKmer, leftCode) ==
    IF Len(kmer) = 0 THEN [code |-> {}, err |-> ErrKOverflow]
    ELSE IF Len(kmer) # Len(leftKmer) THEN [code |-> {}, err |-> ErrKMismatch]
    ELSE IF SubSeq(kmer, 1, Len(kmer) - 1) # SubSeq(leftKmer, 2, Len(leftKmer))
         THEN [code |-> {}, err |-> ErrNotConsecutiveKmers]
    ELSE MustEncodeFromFormerKmer(kmer, leftKmer, leftCode)

MustEncodeFromLatterKmer(kmer, rightKmer, rightCode) ==
    LET v == base2bit(kmer[1])
    IN  IF v = 4 THEN [code |-> rightCode, err |-> ErrIllegalBase]
        ELSE [code |-> Or(Shl(U64(v), (Len(kmer) - 1) * 2), Shr(rightCode, 2)),
              err |-> NoError]

EncodeFromLatterKmer(kmer, rightKmer, rightCode) ==
    IF Len(kmer) = 0 THEN [code |-> {}, err |-> ErrKOverflow]
    ELSE IF Len(kmer) # Len(rightKmer) THEN [code |-> {}, err |-> ErrKMismatch]
    ELSE IF SubSeq(rightKmer, 1, Len(kmer) - 1) # SubSeq(kmer, 2, Len(rightKmer))
         THEN [code |-> {}, err |-> ErrNotConsecutiveKmers]
    ELSE MustEncodeFromLatterKmer(kmer, rightKmer, rightCode)

(***************************************************************************)
(* kmer.go: Reverse, Complement, RevComp, Canonical                        *)
(***************************************************************************)
\* 0x3333333333333333
Mask2 == Hex(<< 3, 3, 3, 3, 3, 3, 3, 3, 3, 3, 3, 3, 3, 3, 3, 3 >>)

\* 0x0F0F0F0F0F0F0F0F
Mask4 == Hex(<< 0, 15, 0, 15, 0, 15, 0, 15, 0, 15, 0, 15, 0, 15, 0, 15 >>)

\* 0x00FF00FF00FF00FF
Mask8 == Hex(<< 0, 0, 15, 15, 0, 0, 15, 15, 0, 0, 15, 15, 0, 0, 15, 15 >>)

\* 0x0000FFFF0000FFFF
Mask16 == Hex(<< 0, 0, 0, 0, 15, 15, 15, 15, 0, 0, 0, 0, 15, 15, 15, 15 >>)

\* 0x00000000FFFFFFFF
Mask32 == Hex(<< 0, 0, 0, 0, 0, 0, 0, 0, 15, 15, 15, 15, 15, 15, 15, 15 >>)

\* one line of the cascade: c = (c >> n & mask) | (c&mask)<<n
SwapGroups(c, n, mask) == Or(And(Shr(c, n), mask), Shl(And(c, mask), n))

\* Cascade gone wrong: the last line, which swaps the two halves of the
\* word, is missing
CascadeFourLines(c) ==
    LET c2 == SwapGroups(c, 2, Mask2)
        c4 == SwapGroups(c2, 4, Mask4)
        c8 == SwapGroups(c4, 8, Mask8)
    IN  SwapGroups(c8, 16, Mask16)

\* the five lines of the cascade, which every function below repeats
Cascade(c) ==
    LET c2 == SwapGroups(c, 2, Mask2)
        c4 == SwapGroups(c2, 4, Mask4)
        c8 == SwapGroups(c4, 8, Mask8)
        c16 == SwapGroups(c8, 16, Mask16)
    IN  SwapGroups(c16, 32, Mask32)

MustReverse(code, k) == Shr(Cascade(code), (32 - k) * 2)

\* Reverse gone wrong: the last shift is by 32 - k bits, not (32 - k) << 1
ReverseShortShift(code, k) ==
    IF k <= 0 \/ k > 32 THEN [c |-> {}, panic |-> ErrKOverflow]
    ELSE [c |-> Shr(Cascade(code), 32 - k), panic |-> NoError]

\* Reverse, Complement, RevComp and Canonical panic on a bad k: panic names
\* the error, NoError when the function returns c
Reverse(code, k) ==
    IF k <= 0 \/ k > 32 THEN [c |-> {}, panic |-> ErrKOverflow]
    ELSE [c |-> Shr(Cascade(code), (32 - k) * 2), panic |-> NoError]

\* Complement gone wrong: every bit of the word is flipped, ^code
ComplementAllBits(code, k) ==
    IF k <= 0 \/ k > 32 THEN [c |-> {}, panic |-> ErrKOverflow]
    ELSE [c |-> Not(code), panic |-> NoError]

MustComplement(code, k) == Xor(code, Dec(Shl(U64(1), k * 2)))

Complement(code, k) ==
    IF k <= 0 \/ k > 32 THEN [c |-> {}, panic |-> ErrKOverflow]
    ELSE [c |-> Xor(code, Dec(Shl(U64(1), k * 2))), panic |-> NoError]

MustRevComp(code, k) == Shr(Cascade(Not(code)), (32 - k) * 2)

\* RevComp gone wrong: the code is not negated before the cascade
RevCompNoNot(code, k) ==
    IF k <= 0 \/ k > 32 THEN [c |-> {}, panic |-> ErrKOverflow]
    ELSE [c |-> Shr(Cascade(code), (32 - k) * 2), panic |-> NoError]

RevComp(code, k) ==
    IF k <= 0 \/ k > 32 THEN [c |-> {}, panic |-> ErrKOverflow]
    ELSE [c |-> Shr(Cascade(Not(code)), (32 - k) * 2), panic |-> NoError]

MustCanonical(code, k) ==
    LET rc == Shr(Cascade(Not(code)), (32 - k) * 2)
    IN  IF Lt(rc, code) THEN rc ELSE code

\* Canonical gone wrong: the code is returned as it came, whatever rc is
CanonicalKeepsCode(code, k) ==
    IF k <= 0 \/ k > 32 THEN [c |-> {}, panic |-> ErrKOverflow]
    ELSE [c |-> code, panic |-> NoError]

\* Canonical gone wrong: the comparison is turned round, rc > code
CanonicalLarger(code, k) ==
    IF k <= 0 \/ k > 32 THEN [c |-> {}, panic |-> ErrKOverflow]
    ELSE LET rc == Shr(Cascade(Not(code)), (32 - k) * 2)
         IN  [c |-> IF Gt(rc, code) THEN rc ELSE code, panic |-> NoError]

Canonical(code, k) ==
    IF k <= 0 \/ k > 32 THEN [c |-> {}, panic |-> ErrKOverflow]
    ELSE LET rc == Shr(Cascade(Not(code)), (32 - k) * 2)
         IN  [c |-> IF Lt(rc, code) THEN rc ELSE code, panic |-> NoError]

(***************************************************************************)
(* kmer.go: BaseAt, Prefix, Suffix, LongestPrefix, HasPrefix               *)
(***************************************************************************)
MustBaseAt(code, k, i) == Value(And(Shr(code, (k - i - 1) * 2), U64(3)))

BaseAt(code, k, i) ==
    IF i < 0 \/ i >= k THEN [c |-> 0, panic |-> ErrPositionOverflow]
    ELSE [c |-> Value(And(Shr(code, (k - i - 1) * 2), U64(3))), panic |-> NoError]

MustPrefix(code, k, n) == Shr(code, (k - n) * 2)

Prefix(code, k, n) ==
    IF n < 1 \/ n > k THEN [c |-> {}, panic |-> ErrLengthOverflow]
    ELSE [c |-> Shr(code, (k - n) * 2), panic |-> NoError]

MustSuffix(code, k, i) == And(code, Dec(Shl(U64(1), (k - i) * 2)))

\* Suffix gone wrong: the mask is k - i bits wide, not (k - i) << 1
SuffixHalfMask(code, k, i) ==
    IF i < 0 \/ i >= k THEN [c |-> {}, panic |-> ErrPositionOverflow]
    ELSE [c |-> And(code, Dec(Shl(U64(1), k - i))), panic |-> NoError]

Suffix(code, k, i) ==
    IF i < 0 \/ i >= k THEN [c |-> {}, panic |-> ErrPositionOverflow]
    ELSE [c |-> And(code, Dec(Shl(U64(1), (k - i) * 2))), panic |-> NoError]

MustLongestPrefix(code1, code2, k1, k2) ==
    IF k1 >= k2
    THEN (LeadingZeros64(Xor(Shr(code1, (k1 - k2) * 2), code2)) \div 2) - (32 - k2)
    ELSE (LeadingZeros64(Xor(code1, Shr(code2, (k2 - k1) * 2))) \div 2) - (32 - k1)

\* LongestPrefix gone wrong: d = 32 - k1 in both branches
LongestPrefixFirstK(code1, code2, k1, k2) ==
    IF k1 <= 0 \/ k1 > 32 \/ k2 <= 0 \/ k2 > 32
    THEN [n |-> 0, panic |-> ErrKOverflow]
    ELSE IF k1 >= k2
    THEN [n |-> (LeadingZeros64(Xor(Shr(code1, (k1 - k2) * 2), code2)) \div 2)
                    - (32 - k1),
          panic |-> NoError]
    ELSE [n |-> (LeadingZeros64(Xor(code1, Shr(code2, (k2 - k1) * 2))) \div 2)
                    - (32 - k1),
          panic |-> NoError]

LongestPrefix(code1, code2, k1, k2) ==
    IF k1 <= 0 \/ k1 > 32 \/ k2 <= 0 \/ k2 > 32
    THEN [n |-> 0, panic |-> ErrKOverflow]
    ELSE IF k1 >= k2
    THEN [n |-> (LeadingZeros64(Xor(Shr(code1, (k1 - k2) * 2), code2)) \div 2)
                    - (32 - k2),
          panic |-> NoError]
    ELSE [n |-> (LeadingZeros64(Xor(code1, Shr(code2, (k2 - k1) * 2))) \div 2)
                    - (32 - k1),
          panic |-> NoError]

MustHasPrefix(code, prefix, k1, k2) ==
    IF k1 < k2 THEN FALSE ELSE Shr(code, (k1 - k2) * 2) = prefix

\* HasPrefix gone wrong: the shift is by k1 - k2 bits, not (k1 - k2) << 1
HasPrefixShortShift(code, prefix, k1, k2) ==
    IF k1 <= 0 \/ k1 > 32 \/ k2 <= 0 \/ k2 > 32
    THEN [b |-> FALSE, panic |-> ErrKOverflow]
    ELSE IF k1 < k2 THEN [b |-> FALSE, panic |-> NoError]
    ELSE [b |-> Shr(code, k1 - k2) = prefix, panic |-> NoError]

HasPrefix(code, prefix, k1, k2) ==
    IF k1 <= 0 \/ k1 > 32 \/ k2 <= 0 \/ k2 > 32
    THEN [b |-> FALSE, panic |-> ErrKOverflow]
    ELSE IF k1 < k2 THEN [b |-> FALSE, panic |-> NoError]
    ELSE [b |-> Shr(code, (k1 - k2) * 2) = prefix, panic |-> NoError]

(***************************************************************************)
(* kmerCode.go: the KmerCode wrapper, a record [Code, K]                   *)
(***************************************************************************)
\* KmerCode{}
ZeroKmerCode == [Code |-> {}, K |-> 0]

NewKmerCode(kmer) ==
    LET e == Encode(kmer)
    IN  IF e.err # NoError THEN [kcode |-> ZeroKmerCode, err |-> e.err]
        ELSE [kcode |-> [Code |-> e.code, K |-> Len(kmer)], err |-> e.err]

NewKmerCodeFromFormerOne(kmer, leftKmer, preKcode) ==
    LET e == EncodeFromFormerKmer(kmer, leftKmer, preKcode.Code)
    IN  IF e.err # NoError THEN [kcode |-> ZeroKmerCode, err |-> e.err]
        ELSE [kcode |-> [Code |-> e.code, K |-> Len(kmer)], err |-> e.err]

KmerCodeEqual(kc, kcode2) == kc.K = kcode2.K /\ kc.Code = kcode2.Code

KmerCodeRev(kc) == [Code |-> MustReverse(kc.Code, kc.K), K |-> kc.K]

KmerCodeComp(kc) == [Code |-> MustComplement(kc.Code, kc.K), K |-> kc.K]

KmerCodeRevComp(kc) == [Code |-> MustRevComp(kc.Code, kc.K), K |-> kc.K]

KmerCodeCanonical(kc) ==
    LET rcKcode == KmerCodeRevComp(kc)
    IN  IF Lt(rcKcode.Code, kc.Code) THEN rcKcode ELSE kc

KmerCodeBytes(kc) == Decode(kc.Code, kc.K)

(***************************************************************************)
(* The caller's inputs                                                     *)
(***************************************************************************)
\* the longest repeating unit of the caller's buffer
MaxSeed == 2

\* 'A', 'C', 'G', 'T'
Bases == {65, 67, 71, 84}

\* the lengths a k-mer can have
KRange == 1 .. 32

Seeds(alphabet) == UNION {[1 .. n -> alphabet] : n \in 1 .. MaxSeed}

\* the buffer of n bytes that repeats seed
Periodic(seed, n) == [j \in 1 .. n |-> seed[((j - 1) % Len(seed)) + 1]]

\* the caller's current window, text[pos : pos+klen]
Window == SubSeq(text, pos + 1, pos + klen)

\* the state after the package's init(): the caller has a buffer of
\* klen + extra bases over alphabet and has called nothing yet
Start(alphabet, extra) ==
    /\ MaxCode = initMaxCode
    /\ klen \in KRange
    /\ text \in {Periodic(seed, klen + extra) : seed \in Seeds(alphabet)}
    /\ pos = 0
    /\ kcode = ZeroKmerCode
    /\ op = "init"
    /\ arg = << >>
    /\ ret = << >>
    /\ other = << >>

(***************************************************************************)
(* Encoding and decoding (TestEncodeDecode)                                *)
(***************************************************************************)
\* kcode, err = NewKmerCode(mer)
CallNewKmerCode ==
    LET r == NewKmerCode(Window)
    IN  /\ op = "init"
        /\ op' = "NewKmerCode"
        /\ arg' = [kmer |-> Window]
        /\ ret' = r
        /\ kcode' = r.kcode
        /\ UNCHANGED << MaxCode, text, klen, pos, other >>

\* kcode.Bytes()
CallBytes ==
    /\ op = "NewKmerCode"
    /\ op' = "Bytes"
    /\ arg' = [kcode |-> kcode]
    /\ ret' = KmerCodeBytes(kcode)
    /\ UNCHANGED << MaxCode, text, klen, pos, kcode, other >>

\* Decode(kcode.Code, kd) for a length kd of the caller's choice
CallDecode ==
    /\ op = "NewKmerCode"
    /\ \E kd \in KRange :
        /\ op' = "Decode"
        /\ arg' = [code |-> kcode.Code, k |-> kd]
        /\ ret' = Decode(kcode.Code, kd)
    /\ UNCHANGED << MaxCode, text, klen, pos, kcode, other >>

Init == Start(Bases, 0)

Next == CallNewKmerCode \/ CallBytes \/ CallDecode

Spec == Init /\ [][Next]_vars

(***************************************************************************)
(* Sliding a window over the buffer (TestEncodeFromFormerKmer,             *)
(* TestEncodeFromLatterKmer)                                               *)
(***************************************************************************)
\* how many bases the buffer is longer than the window
MaxSlide == 2

\* 'N', a degenerate base, which Encode takes for 'A'
Degenerate == {78}

\* code, err = Encode(kmer) on the first or on the last window of the buffer
CallEncode ==
    /\ op = "init"
    /\ \E p \in {0, Len(text) - klen} :
        LET kmer == SubSeq(text, p + 1, p + klen)
            r == Encode(kmer)
        IN  /\ pos' = p
            /\ op' = "Encode"
            /\ arg' = [kmer |-> kmer]
            /\ ret' = r
            /\ kcode' = [Code |-> r.code, K |-> klen]
    /\ UNCHANGED << MaxCode, text, klen, other >>

\* the window moves one base to the right:
\* code, err = EncodeFromFormerKmer(kmer, pKmer, pCode); pCode = code
SlideForward ==
    /\ op # "init"
    /\ pos + klen < Len(text)
    /\ LET kmer == SubSeq(text, pos + 2, pos + klen + 1)
           pKmer == Window
           r == EncodeFromFormerKmer(kmer, pKmer, kcode.Code)
       IN  /\ pos' = pos + 1
           /\ op' = "EncodeFromFormerKmer"
           /\ arg' = [kmer |-> kmer, leftKmer |-> pKmer, leftCode |-> kcode.Code]
           /\ ret' = r
           /\ kcode' = [Code |-> r.code, K |-> klen]
    /\ UNCHANGED << MaxCode, text, klen, other >>

\* the window moves one base to the left:
\* code, err = EncodeFromLatterKmer(kmer, pKmer, pCode); pCode = code
SlideBackward ==
    /\ op # "init"
    /\ pos > 0
    /\ LET kmer == SubSeq(text, pos, pos + klen - 1)
           pKmer == Window
           r == EncodeFromLatterKmer(kmer, pKmer, kcode.Code)
       IN  /\ pos' = pos - 1
           /\ op' = "EncodeFromLatterKmer"
           /\ arg' = [kmer |-> kmer, rightKmer |-> pKmer, rightCode |-> kcode.Code]
           /\ ret' = r
           /\ kcode' = [Code |-> r.code, K |-> klen]
    /\ UNCHANGED << MaxCode, text, klen, other >>

InitSlide == Start(Bases \cup Degenerate, MaxSlide)

NextSlide == CallEncode \/ SlideForward \/ SlideBackward

SpecSlide == InitSlide /\ [][NextSlide]_vars

(***************************************************************************)
(* Reverse, complement, reverse complement, canonical (TestRevComp)        *)
(***************************************************************************)
\* kcode = kcode.Rev()
CallRev ==
    /\ op # "init"
    /\ op' = "Rev"
    /\ arg' = [kcode |-> kcode]
    /\ ret' = KmerCodeRev(kcode)
    /\ kcode' = KmerCodeRev(kcode)
    /\ UNCHANGED << MaxCode, text, klen, pos, other >>

\* kcode = kcode.Comp()
CallComp ==
    /\ op # "init"
    /\ op' = "Comp"
    /\ arg' = [kcode |-> kcode]
    /\ ret' = KmerCodeComp(kcode)
    /\ kcode' = KmerCodeComp(kcode)
    /\ UNCHANGED << MaxCode, text, klen, pos, other >>

\* kcode = kcode.RevComp()
CallRevComp ==
    /\ op # "init"
    /\ op' = "RevComp"
    /\ arg' = [kcode |-> kcode]
    /\ ret' = KmerCodeRevComp(kcode)
    /\ kcode' = KmerCodeRevComp(kcode)
    /\ UNCHANGED << MaxCode, text, klen, pos, other >>

\* kcode = kcode.Canonical()
CallCanonical ==
    /\ op # "init"
    /\ op' = "Canonical"
    /\ arg' = [kcode |-> kcode]
    /\ ret' = KmerCodeCanonical(kcode)
    /\ kcode' = KmerCodeCanonical(kcode)
    /\ UNCHANGED << MaxCode, text, klen, pos, other >>

NextAlgebra ==
    CallNewKmerCode \/ CallRev \/ CallComp \/ CallRevComp \/ CallCanonical

SpecAlgebra == Init /\ [][NextAlgebra]_vars

(***************************************************************************)
(* Prefixes and suffixes (TestSubstringOps)                                *)
(***************************************************************************)
\* Prefix(code, k, n) for every length n the k-mer has a prefix of
CallPrefix ==
    /\ op = "NewKmerCode"
    /\ \E n \in 1 .. klen :
        /\ op' = "Prefix"
        /\ arg' = [code |-> kcode.Code, k |-> klen, n |-> n]
        /\ ret' = Prefix(kcode.Code, klen, n)
    /\ UNCHANGED << MaxCode, text, klen, pos, kcode, other >>

\* Suffix(code, k, i) for every position i of the k-mer
CallSuffix ==
    /\ op = "NewKmerCode"
    /\ \E i \in 0 .. (klen - 1) :
        /\ op' = "Suffix"
        /\ arg' = [code |-> kcode.Code, k |-> klen, i |-> i]
        /\ ret' = Suffix(kcode.Code, klen, i)
    /\ UNCHANGED << MaxCode, text, klen, pos, kcode, other >>

NextSub == CallNewKmerCode \/ CallPrefix \/ CallSuffix

SpecSub == Init /\ [][NextSub]_vars

(***************************************************************************)
(* Two k-mers: LongestPrefix and HasPrefix (TestSubstringOps)              *)
(***************************************************************************)
MinOf(a, b) == IF a <= b THEN a ELSE b

\* "ACGT" rotated by j bases
Rotation(j) == [i \in 1 .. 4 |-> bit2base((i - 1 + j) % 4)]

\* the bases a second k-mer continues with where it leaves the first one
Fills == {65, 84}

\* the second k-mer: k2 bases, the first n of them those of kmer, the rest y
Second(kmer, k2, n, y) == [j \in 1 .. k2 |-> IF j <= n THEN kmer[j] ELSE y]

\* the last of the bases of "ACGT" that the caller's buffer may start from
MaxRot == 1

\* the caller's buffer is one k-mer of "ACGTACGT...", read from one of its
\* first bases on
InitPair ==
    /\ MaxCode = initMaxCode
    /\ klen \in KRange
    /\ text \in {Periodic(Rotation(j), klen) : j \in 0 .. MaxRot}
    /\ pos = 0
    /\ kcode = ZeroKmerCode
    /\ op = "init"
    /\ arg = << >>
    /\ ret = << >>
    /\ other = << >>

\* LongestPrefix(code, p, k, k2) with a second k-mer encoded by Encode
CallLongestPrefix ==
    /\ op = "NewKmerCode"
    /\ \E k2 \in KRange :
        \E n \in 0 .. MinOf(klen, k2) :
            \E y \in Fills :
                /\ other' = Second(text, k2, n, y)
                /\ \E p \in {Encode(other').code} :
                    /\ op' = "LongestPrefix"
                    /\ arg' = [code1 |-> kcode.Code, code2 |-> p,
                           k1 |-> klen, k2 |-> k2]
                    /\ ret' = LongestPrefix(kcode.Code, p, klen, k2)
    /\ UNCHANGED << MaxCode, text, klen, pos, kcode >>

\* HasPrefix(code, p, k, k2) with a second k-mer encoded by Encode
CallHasPrefix ==
    /\ op = "NewKmerCode"
    /\ \E k2 \in KRange :
        \E n \in 0 .. MinOf(klen, k2) :
            \E y \in Fills :
                /\ other' = Second(text, k2, n, y)
                /\ \E p \in {Encode(other').code} :
                    /\ op' = "HasPrefix"
                    /\ arg' = [code |-> kcode.Code, prefix |-> p,
                           k1 |-> klen, k2 |-> k2]
                    /\ ret' = HasPrefix(kcode.Code, p, klen, k2)
    /\ UNCHANGED << MaxCode, text, klen, pos, kcode >>

NextLongestPrefix == CallNewKmerCode \/ CallLongestPrefix

SpecLongestPrefix == InitPair /\ [][NextLongestPrefix]_vars

NextHasPrefix == CallNewKmerCode \/ CallHasPrefix

SpecHasPrefix == InitPair /\ [][NextHasPrefix]_vars

(***************************************************************************)
(* Encode on inputs of any length and with any bytes                       *)
(***************************************************************************)
\* the longest input the caller hands to Encode, one byte more than fits
MaxInput == 33

\* bytes the caller's input may hold in one place: NUL, '-', '@', 'E', 'N',
\* 'U', 'X', 'n', 'u', 't' and 0xFF
Probes == {0, 45, 64, 69, 78, 85, 88, 110, 117, 116, 255}

\* what the input is made of but for that place: "ACGTACGT..." or "XXXX..."
Grounds == {Rotation(0), << 88 >>}

\* kmer with the byte b at place p
Patched(kmer, p, b) == [kmer EXCEPT ![p] = b]

\* the caller's buffer is the whole input: 0..MaxInput bytes of one ground,
\* with at most one byte of another kind somewhere in it
InitInput ==
    /\ MaxCode = initMaxCode
    /\ klen \in 0 .. MaxInput
    /\ text \in UNION {{Periodic(g, klen)} \cup
                         {Patched(Periodic(g, klen), p, b) :
                              p \in 1 .. klen, b \in Probes} : g \in Grounds}
    /\ pos = 0
    /\ kcode = ZeroKmerCode
    /\ op = "init"
    /\ arg = << >>
    /\ ret = << >>
    /\ other = << >>

NextInput == CallEncode \/ CallNewKmerCode

SpecInput == InitInput /\ [][NextInput]_vars

(***************************************************************************)
(* The checked functions called with a k that is no k-mer size             *)
(***************************************************************************)
\* values of k outside 1..32: negative, zero, too large
BadK == {-1, 0, 33}

\* positions and lengths to go with a k: around 0 and around k
Around(k) == {-1, 0, 1, k - 1, k, k + 1}

\* Decode(code, k)
DecodeBadK ==
    /\ op = "NewKmerCode"
    /\ \E k \in BadK :
        /\ op' = "Decode"
        /\ arg' = [code |-> kcode.Code, k |-> k]
        /\ ret' = Decode(kcode.Code, k)
    /\ UNCHANGED << MaxCode, text, klen, pos, kcode, other >>

\* Reverse(code, k)
ReverseBadK ==
    /\ op = "NewKmerCode"
    /\ \E k \in BadK :
        /\ op' = "Reverse"
        /\ arg' = [code |-> kcode.Code, k |-> k]
        /\ ret' = Reverse(kcode.Code, k)
    /\ UNCHANGED << MaxCode, text, klen, pos, kcode, other >>

\* Complement(code, k)
ComplementBadK ==
    /\ op = "NewKmerCode"
    /\ \E k \in BadK :
        /\ op' = "Complement"
        /\ arg' = [code |-> kcode.Code, k |-> k]
        /\ ret' = Complement(kcode.Code, k)
    /\ UNCHANGED << MaxCode, text, klen, pos, kcode, other >>

\* RevComp(code, k)
RevCompBadK ==
    /\ op = "NewKmerCode"
    /\ \E k \in BadK :
        /\ op' = "RevComp"
        /\ arg' = [code |-> kcode.Code, k |-> k]
        /\ ret' = RevComp(kcode.Code, k)
    /\ UNCHANGED << MaxCode, text, klen, pos, kcode, other >>

\* Canonical(code, k)
CanonicalBadK ==
    /\ op = "NewKmerCode"
    /\ \E k \in BadK :
        /\ op' = "Canonical"
        /\ arg' = [code |-> kcode.Code, k |-> k]
        /\ ret' = Canonical(kcode.Code, k)
    /\ UNCHANGED << MaxCode, text, klen, pos, kcode, other >>

\* LongestPrefix(code1, code2, k1, k2) where k1 or k2 is k
LongestPrefixBadK ==
    /\ op = "NewKmerCode"
    /\ \E k \in BadK :
        \E ks \in {<< k, klen >>, << klen, k >>, << k, k >>} :
            /\ op' = "LongestPrefix"
            /\ arg' = [code1 |-> kcode.Code, code2 |-> kcode.Code,
                       k1 |-> ks[1], k2 |-> ks[2], k |-> k]
            /\ ret' = LongestPrefix(kcode.Code, kcode.Code, ks[1], ks[2])
    /\ UNCHANGED << MaxCode, text, klen, pos, kcode, other >>

\* HasPrefix(code, prefix, k1, k2) where k1 or k2 is k
HasPrefixBadK ==
    /\ op = "NewKmerCode"
    /\ \E k \in BadK :
        \E ks \in {<< k, klen >>, << klen, k >>, << k, k >>} :
            /\ op' = "HasPrefix"
            /\ arg' = [code |-> kcode.Code, prefix |-> kcode.Code,
                       k1 |-> ks[1], k2 |-> ks[2], k |-> k]
            /\ ret' = HasPrefix(kcode.Code, kcode.Code, ks[1], ks[2])
    /\ UNCHANGED << MaxCode, text, klen, pos, kcode, other >>

\* BaseAt(code, k, i)
BaseAtBadK ==
    /\ op = "NewKmerCode"
    /\ \E k \in BadK :
        \E i \in Around(k) :
            /\ op' = "BaseAt"
            /\ arg' = [code |-> kcode.Code, k |-> k, i |-> i]
            /\ ret' = BaseAt(kcode.Code, k, i)
    /\ UNCHANGED << MaxCode, text, klen, pos, kcode, other >>

\* Prefix(code, k, n)
PrefixBadK ==
    /\ op = "NewKmerCode"
    /\ \E k \in BadK :
        \E n \in Around(k) :
            /\ op' = "Prefix"
            /\ arg' = [code |-> kcode.Code, k |-> k, n |-> n]
            /\ ret' = Prefix(kcode.Code, k, n)
    /\ UNCHANGED << MaxCode, text, klen, pos, kcode, other >>

\* Suffix(code, k, i)
SuffixBadK ==
    /\ op = "NewKmerCode"
    /\ \E k \in BadK :
        \E i \in Around(k) :
            /\ op' = "Suffix"
            /\ arg' = [code |-> kcode.Code, k |-> k, i |-> i]
            /\ ret' = Suffix(kcode.Code, k, i)
    /\ UNCHANGED << MaxCode, text, klen, pos, kcode, other >>

\* EncodeFromFormerKmer(kmer, leftKmer, leftCode) on two consecutive windows
\* of k bytes of the caller's bases, repeated as often as it takes
FormerBadK ==
    /\ op = "NewKmerCode"
    /\ \E k \in BadK \cap Nat :
        LET kmer == SubSeq(Periodic(text, k + 1), 2, k + 1)
            leftKmer == SubSeq(Periodic(text, k + 1), 1, k)
        IN  /\ op' = "EncodeFromFormerKmer"
            /\ arg' = [kmer |-> kmer, leftKmer |-> leftKmer,
                       leftCode |-> kcode.Code, k |-> k]
            /\ ret' = EncodeFromFormerKmer(kmer, leftKmer, kcode.Code)
    /\ UNCHANGED << MaxCode, text, klen, pos, kcode, other >>

\* EncodeFromLatterKmer(kmer, rightKmer, rightCode), likewise
LatterBadK ==
    /\ op = "NewKmerCode"
    /\ \E k \in BadK \cap Nat :
        LET kmer == SubSeq(Periodic(text, k + 1), 1, k)
            rightKmer == SubSeq(Periodic(text, k + 1), 2, k + 1)
        IN  /\ op' = "EncodeFromLatterKmer"
            /\ arg' = [kmer |-> kmer, rightKmer |-> rightKmer,
                       rightCode |-> kcode.Code, k |-> k]
            /\ ret' = EncodeFromLatterKmer(kmer, rightKmer, kcode.Code)
    /\ UNCHANGED << MaxCode, text, klen, pos, kcode, other >>

NextBadK ==
    \/ CallNewKmerCode
    \/ DecodeBadK
    \/ ReverseBadK
    \/ ComplementBadK
    \/ RevCompBadK
    \/ CanonicalBadK
    \/ LongestPrefixBadK
    \/ HasPrefixBadK
    \/ BaseAtBadK
    \/ PrefixBadK
    \/ SuffixBadK
    \/ FormerBadK
    \/ LatterBadK

SpecBadK == InitPair /\ [][NextBadK]_vars

(***************************************************************************)
(* A code under any sequence of transformations and slides                 *)
(***************************************************************************)
\* how many bases the buffer is longer than the window: the caller reads
\* each base once, so this is how many slides one run has
MaxScan == 1

\* the calls that leave the caller with a code in kcode
Holding ==
    {"Encode", "EncodeFromFormerKmer", "EncodeFromLatterKmer",
     "Reverse", "Complement", "RevComp", "Canonical"}

\* seq without its j-th element
Without(seq, j) == SubSeq(seq, 1, j - 1) \o SubSeq(seq, j + 1, Len(seq))

\* the window moves one base to the right, over whatever code the caller
\* holds, and the caller lets go of the base the window has left:
\* code, err = EncodeFromFormerKmer(kmer, pKmer, pCode); pCode = code
ScanForward ==
    /\ op \in Holding
    /\ pos + klen < Len(text)
    /\ LET kmer == SubSeq(text, pos + 2, pos + klen + 1)
           pKmer == Window
           r == EncodeFromFormerKmer(kmer, pKmer, kcode.Code)
       IN  /\ text' = Without(text, pos + 1)
           /\ op' = "EncodeFromFormerKmer"
           /\ arg' = [kmer |-> kmer, leftKmer |-> pKmer, leftCode |-> kcode.Code]
           /\ ret' = r
           /\ kcode' = [Code |-> r.code, K |-> klen]
    /\ UNCHANGED << MaxCode, klen, pos, other >>

\* the window moves one base to the left, likewise:
\* code, err = EncodeFromLatterKmer(kmer, pKmer, pCode); pCode = code
ScanBackward ==
    /\ op \in Holding
    /\ pos > 0
    /\ LET kmer == SubSeq(text, pos, pos + klen - 1)
           pKmer == Window
           r == EncodeFromLatterKmer(kmer, pKmer, kcode.Code)
       IN  /\ text' = Without(text, pos + klen)
           /\ pos' = pos - 1
           /\ op' = "EncodeFromLatterKmer"
           /\ arg' = [kmer |-> kmer, rightKmer |-> pKmer, rightCode |-> kcode.Code]
           /\ ret' = r
           /\ kcode' = [Code |-> r.code, K |-> klen]
    /\ UNCHANGED << MaxCode, klen, other >>

\* code = Reverse(code, k) on the code the caller holds
ReverseCode ==
    /\ op \in Holding
    /\ LET r == Reverse(kcode.Code, kcode.K)
       IN  /\ op' = "Reverse"
           /\ arg' = [code |-> kcode.Code, k |-> kcode.K]
           /\ ret' = r
           /\ kcode' = [Code |-> r.c, K |-> kcode.K]
    /\ UNCHANGED << MaxCode, text, klen, pos, other >>

\* code = Complement(code, k)
ComplementCode ==
    /\ op \in Holding
    /\ LET r == Complement(kcode.Code, kcode.K)
       IN  /\ op' = "Complement"
           /\ arg' = [code |-> kcode.Code, k |-> kcode.K]
           /\ ret' = r
           /\ kcode' = [Code |-> r.c, K |-> kcode.K]
    /\ UNCHANGED << MaxCode, text, klen, pos, other >>

\* code = RevComp(code, k)
RevCompCode ==
    /\ op \in Holding
    /\ LET r == RevComp(kcode.Code, kcode.K)
       IN  /\ op' = "RevComp"
           /\ arg' = [code |-> kcode.Code, k |-> kcode.K]
           /\ ret' = r
           /\ kcode' = [Code |-> r.c, K |-> kcode.K]
    /\ UNCHANGED << MaxCode, text, klen, pos, other >>

\* code = Canonical(code, k)
CanonicalCode ==
    /\ op \in Holding
    /\ LET r == Canonical(kcode.Code, kcode.K)
       IN  /\ op' = "Canonical"
           /\ arg' = [code |-> kcode.Code, k |-> kcode.K]
           /\ ret' = r
           /\ kcode' = [Code |-> r.c, K |-> kcode.K]
    /\ UNCHANGED << MaxCode, text, klen, pos, other >>

\* the lengths the caller cuts a code of k bases to: the shortest, the
\* longest and the middle ones
Cuts(k) == {n \in {1, 2, k \div 2, k - 1, k} : 1 <= n /\ n <= k}

\* Prefix(kcode.Code, kcode.K, n) of a code the caller has just got
PrefixOfCode ==
    /\ op \in Holding
    /\ \E n \in Cuts(klen) :
        /\ op' = "Prefix"
        /\ arg' = [code |-> kcode.Code, k |-> kcode.K, n |-> n]
        /\ ret' = Prefix(kcode.Code, kcode.K, n)
    /\ UNCHANGED << MaxCode, text, klen, pos, kcode, other >>

\* Suffix(kcode.Code, kcode.K, i) of a code the caller has just got
SuffixOfCode ==
    /\ op \in Holding
    /\ \E i \in {klen - n : n \in Cuts(klen)} :
        /\ op' = "Suffix"
        /\ arg' = [code |-> kcode.Code, k |-> kcode.K, i |-> i]
        /\ ret' = Suffix(kcode.Code, kcode.K, i)
    /\ UNCHANGED << MaxCode, text, klen, pos, kcode, other >>

\* the caller's buffer is klen + MaxScan bases of "ACGTACGT...", read from
\* one of its first bases on
InitRange ==
    /\ MaxCode = initMaxCode
    /\ klen \in KRange
    /\ text \in {Periodic(Rotation(j), klen + MaxScan) : j \in 0 .. MaxRot}
    /\ pos = 0
    /\ kcode = ZeroKmerCode
    /\ op = "init"
    /\ arg = << >>
    /\ ret = << >>
    /\ other = << >>

NextRange ==
    \/ CallEncode
    \/ ScanForward
    \/ ScanBackward
    \/ ReverseCode
    \/ ComplementCode
    \/ RevCompCode
    \/ CanonicalCode
    \/ PrefixOfCode
    \/ SuffixOfCode

SpecRange == InitRange /\ [][NextRange]_vars

(***************************************************************************)
(* Reverse and Complement of encoded k-mers (TestRevComp)                  *)
(***************************************************************************)
\* the caller's k-mer is one of the test's k-mers or one of "ACGTACGT..."
InitSymbols == Init \/ InitPair

NextSymbols == CallEncode \/ ReverseCode \/ ComplementCode

SpecSymbols == InitSymbols /\ [][NextSymbols]_vars

(***************************************************************************)
(* Properties                                                              *)
(***************************************************************************)
\* the uint64 2^(2k) - 1: the 2k low bits set
FullCode(k) == 0 .. (2 * k - 1)

\* the bases of the k-mer the caller has encoded are all of A, C, G, T
InBases(kmer) == \A j \in 1 .. Len(kmer) : kmer[j] \in Bases

\* C1: for every sequence s of 1..32 bases over {A,C,G,T}, Encode(s) returns
\* no error and Decode(Encode(s), len(s)) is s; NewKmerCode(s).Bytes() is s
\* too.
RoundTrip ==
    /\ op = "NewKmerCode" =>
        /\ InBases(arg.kmer)
        /\ Encode(arg.kmer).err = NoError
        /\ ret.err = NoError
        /\ kcode.K = Len(arg.kmer)
        /\ kcode.Code = Encode(arg.kmer).code
        /\ Decode(Encode(arg.kmer).code, Len(arg.kmer)) =
               [kmer |-> arg.kmer, panic |-> NoError]
    /\ op = "Bytes" => ret = [kmer |-> Window, panic |-> NoError]

\* a 32-mer with more than one base has come back from Bytes as it went in
RoundTripWitness ==
    /\ op = "Bytes"
    /\ klen = 32
    /\ ret.panic = NoError
    /\ ret.kmer = text
    /\ text[1] # text[2]

\* C9: after init(), MaxCode[k] = 2^(2k) - 1 for every k in 1..32.
MaxCodeTable == \A i \in KRange : MaxCode[i] = FullCode(i)

\* C10: Decode(code, k) with 1 <= k <= 32 panics with ErrCodeOverflow
\* whenever code > 2^(2k) - 1, and returns k bases whenever
\* code <= 2^(2k) - 1.
DecodeChecksCode ==
    op = "Decode" =>
        IF Gt(arg.code, FullCode(arg.k))
        THEN ret.panic = ErrCodeOverflow
        ELSE ret.panic = NoError /\ Len(ret.kmer) = arg.k

\* C2: sliding the window by one base at a time, from Encode of the first
\* window forward with EncodeFromFormerKmer or from Encode of the last window
\* backward with EncodeFromLatterKmer, every step returns no error and the
\* code Encode gives for the window it arrives at.
SlideEqualsDirect ==
    op \in {"EncodeFromFormerKmer", "EncodeFromLatterKmer"} =>
        /\ arg.kmer = Window
        /\ ret.err = NoError
        /\ Encode(Window) = [code |-> ret.code, err |-> NoError]
        /\ kcode = [Code |-> ret.code, K |-> klen]

\* a forward slide has reached the end of the buffer, dropping a base whose
\* bits are not 00 from a window shorter than 32
SlideWitness ==
    /\ op = "EncodeFromFormerKmer"
    /\ pos = Len(text) - klen
    /\ klen > 1
    /\ klen < 32
    /\ base2bit(arg.leftKmer[1]) # 0
    /\ ret.err = NoError
    /\ ret.code = Encode(Window).code

\* the code the caller held before the last call is a valid code of its K
ValidArg == ~Gt(arg.kcode.Code, FullCode(arg.kcode.K))

\* C3: RevComp(c,k) = Reverse(Complement(c,k),k) = Complement(Reverse(c,k),k)
\* for every k in 1..32 and every code c <= 2^(2k) - 1, and
\* KmerCode.Comp().Rev() equals KmerCode.RevComp().
RevCompIsComposition ==
    op = "RevComp" =>
        LET c == arg.kcode.Code
            kk == arg.kcode.K
        IN  /\ ValidArg
            /\ RevComp(c, kk).panic = NoError
            /\ Reverse(Complement(c, kk).c, kk) = RevComp(c, kk)
            /\ Complement(Reverse(c, kk).c, kk) = RevComp(c, kk)
            /\ KmerCodeRev(KmerCodeComp(arg.kcode)) = ret
            /\ KmerCodeEqual(KmerCodeRev(KmerCodeComp(arg.kcode)),
                             KmerCodeRevComp(arg.kcode))
            /\ ret = [Code |-> RevComp(c, kk).c, K |-> kk]

\* a 32-mer has been reverse-complemented into another 32-mer
RevCompWitness ==
    /\ op = "RevComp"
    /\ klen = 32
    /\ ValidArg
    /\ ret # arg.kcode
    /\ ret.Code = RevComp(arg.kcode.Code, 32).c

\* C4: Reverse(Reverse(c,k),k) = c and Complement(Complement(c,k),k) = c for
\* every k in 1..32 and every code c <= 2^(2k) - 1.
Involution ==
    /\ op = "Rev" =>
        /\ ValidArg
        /\ ret.Code = Reverse(arg.kcode.Code, arg.kcode.K).c
        /\ Reverse(ret.Code, ret.K) = [c |-> arg.kcode.Code, panic |-> NoError]
        /\ KmerCodeEqual(KmerCodeRev(ret), arg.kcode)
    /\ op = "Comp" =>
        /\ ValidArg
        /\ ret.Code = Complement(arg.kcode.Code, arg.kcode.K).c
        /\ Complement(ret.Code, ret.K) = [c |-> arg.kcode.Code, panic |-> NoError]
        /\ KmerCodeEqual(KmerCodeComp(ret), arg.kcode)

\* a 32-mer has been reversed into another 32-mer
InvolutionWitness ==
    /\ op = "Rev"
    /\ klen = 32
    /\ ValidArg
    /\ ret # arg.kcode
    /\ Reverse(ret.Code, 32).c = arg.kcode.Code

\* C5: Canonical(c,k) is the smaller of c and RevComp(c,k) as uint64, hence
\* Canonical(c,k) <= c and Canonical(Canonical(c,k),k) = Canonical(c,k), for
\* every k in 1..32 and every code c <= 2^(2k) - 1; KmerCode.Canonical
\* returns that code with the same K.
CanonicalIsMin ==
    op = "Canonical" =>
        LET c == arg.kcode.Code
            kk == arg.kcode.K
            rc == RevComp(c, kk).c
            can == Canonical(c, kk)
        IN  /\ ValidArg
            /\ can.panic = NoError
            /\ can.c \in {c, rc}
            /\ ~Lt(c, can.c)
            /\ ~Lt(rc, can.c)
            /\ Canonical(can.c, kk) = can
            /\ MustCanonical(c, kk) = can.c
            /\ ret = [Code |-> can.c, K |-> kk]

\* the canonical code of a 32-mer is that of its reverse complement, which
\* is smaller
CanonicalWitness ==
    /\ op = "Canonical"
    /\ klen = 32
    /\ ValidArg
    /\ Lt(ret.Code, arg.kcode.Code)
    /\ ret.Code = RevComp(arg.kcode.Code, 32).c

\* C6: for every sequence s of k bases over {A,C,G,T}, k in 1..32,
\* Decode(Prefix(Encode(s),k,n),n) = s[0:n] for 1 <= n <= k and
\* Decode(Suffix(Encode(s),k,i),k-i) = s[i:] for 0 <= i < k.
PrefixSuffixConsistent ==
    /\ op = "Prefix" =>
        /\ InBases(text)
        /\ arg.code = Encode(text).code
        /\ ret.panic = NoError
        /\ Decode(ret.c, arg.n) =
               [kmer |-> SubSeq(text, 1, arg.n), panic |-> NoError]
    /\ op = "Suffix" =>
        /\ InBases(text)
        /\ arg.code = Encode(text).code
        /\ ret.panic = NoError
        /\ Decode(ret.c, arg.k - arg.i) =
               [kmer |-> SubSeq(text, arg.i + 1, arg.k), panic |-> NoError]

\* the suffix from position 0 of a 32-mer, where the mask is 64 bits wide
PrefixSuffixWitness ==
    /\ op = "Suffix"
    /\ arg.k = 32
    /\ arg.i = 0
    /\ ret.panic = NoError
    /\ ret.c = arg.code
    /\ MustDecode(ret.c, 32) = text
    /\ text[1] # text[2]

\* the length of the longest common prefix of two byte sequences
CommonPrefixLen(a, b) ==
    CHOOSE m \in 0 .. MinOf(Len(a), Len(b)) :
        /\ \A j \in 1 .. m : a[j] = b[j]
        /\ m = MinOf(Len(a), Len(b)) \/ a[m + 1] # b[m + 1]

\* C7: LongestPrefix(c1,c2,k1,k2) is the length of the longest common prefix
\* of Decode(c1,k1) and Decode(c2,k2) for all k1, k2 in 1..32 and valid
\* codes; it is 0 when the first bases differ, min(k1,k2) when one sequence
\* is a prefix of the other, and always in 0..min(k1,k2).
LongestPrefixCorrect ==
    op = "LongestPrefix" =>
        LET a == Decode(arg.code1, arg.k1)
            b == Decode(arg.code2, arg.k2)
            m == MinOf(arg.k1, arg.k2)
        IN  /\ ~Gt(arg.code1, FullCode(arg.k1))
            /\ ~Gt(arg.code2, FullCode(arg.k2))
            /\ a.panic = NoError
            /\ b.panic = NoError
            /\ ret.panic = NoError
            /\ ret.n = CommonPrefixLen(a.kmer, b.kmer)
            /\ ret.n \in 0 .. m
            /\ a.kmer[1] # b.kmer[1] => ret.n = 0
            /\ SubSeq(a.kmer, 1, m) = SubSeq(b.kmer, 1, m) => ret.n = m
            /\ MustLongestPrefix(arg.code1, arg.code2, arg.k1, arg.k2) = ret.n

\* a 32-mer and a 20-mer that share their first 7 bases and no more
LongestPrefixWitness ==
    /\ op = "LongestPrefix"
    /\ arg.k1 = 32
    /\ arg.k2 = 20
    /\ ret.panic = NoError
    /\ ret.n = 7
    /\ SubSeq(text, 1, 7) = SubSeq(other, 1, 7)
    /\ text[8] # other[8]

\* p is a prefix of s, as bytes.HasPrefix(s, p)
IsPrefix(s, p) == Len(p) <= Len(s) /\ SubSeq(s, 1, Len(p)) = p

\* C8: HasPrefix(Encode(s), Encode(p), len(s), len(p)) is true exactly when
\* p is a prefix of s, for all sequences s and p of 1..32 bases over
\* {A,C,G,T}; it is false whenever len(s) < len(p).
HasPrefixAgrees ==
    op = "HasPrefix" =>
        /\ InBases(text)
        /\ InBases(other)
        /\ arg.code = Encode(text).code
        /\ arg.prefix = Encode(other).code
        /\ arg.k1 = Len(text)
        /\ arg.k2 = Len(other)
        /\ ret.panic = NoError
        /\ ret.b = IsPrefix(text, other)
        /\ Len(text) < Len(other) => ~ret.b
        /\ MustHasPrefix(arg.code, arg.prefix, arg.k1, arg.k2) = ret.b

\* a 32-mer has a proper prefix of 31 bases
HasPrefixWitness ==
    /\ op = "HasPrefix"
    /\ arg.k1 = 32
    /\ arg.k2 = 31
    /\ ret.panic = NoError
    /\ ret.b
    /\ IsPrefix(text, other)

\* the bytes with an entry other than 4 in base2bit: A, C, G, T, U and the
\* degenerate codes B, D, H, K, M, N, R, S, V, W, Y, in upper and lower case
Letters == {65, 66, 67, 68, 71, 72, 75, 77, 78, 82, 83, 84, 85, 86, 87, 89}

Symbols == Letters \cup {b + 32 : b \in Letters}

\* A, C, G, T and the degenerate codes, in upper and lower case: not U
SymbolsButU == Symbols \ {85, 117}

\* the errors that say a length is 0 or above 32
LengthOverflowKind == {ErrKOverflow, ErrLengthOverflow}

\* the error Encode and NewKmerCode return for the input s when the bytes
\* they take are those of symbols
EncodeError(s, symbols) ==
    IF Len(s) = 0 \/ Len(s) > 32 THEN ErrKOverflow
    ELSE IF \E j \in 1 .. Len(s) : s[j] \notin symbols THEN ErrIllegalBase
    ELSE NoError

\* C11, as the code has it: Encode (and NewKmerCode) returns ErrKOverflow on
\* an empty input and on an input of more than 32 bytes; on 1..32 bytes it
\* returns ErrIllegalBase exactly when some byte has the entry 4 in base2bit,
\* that is when some byte is none of A, C, G, T, U, B, D, H, K, M, N, R, S,
\* V, W, Y in either case, and nil otherwise.
EncodeErrorsWithU ==
    /\ \A b \in 0 .. 255 : base2bit(b) = 4 <=> b \notin Symbols
    /\ op \in {"Encode", "NewKmerCode"} =>
        /\ ret.err = EncodeError(arg.kmer, Symbols)
        /\ Encode(arg.kmer).err = ret.err

\* Encode has gone through 31 bases of a 32-byte input and returned
\* ErrIllegalBase for the last byte, 'X'
EncodeErrorsWitness ==
    /\ op = "Encode"
    /\ Len(arg.kmer) = 32
    /\ InBases(SubSeq(arg.kmer, 1, 31))
    /\ arg.kmer[32] = 88
    /\ ret.err = ErrIllegalBase

\* C11: Encode on an empty input and on an input of more than 32 bytes fails
\* with an error of the length-overflow kind; on 1..32 bytes it fails with
\* ErrIllegalBase exactly when some byte is neither A, C, G, T nor a
\* degenerate code, in either case, and returns no error otherwise.
EncodeErrors ==
    op \in {"Encode", "NewKmerCode"} =>
        IF EncodeError(arg.kmer, SymbolsButU) = ErrKOverflow
        THEN ret.err \in LengthOverflowKind
        ELSE ret.err = EncodeError(arg.kmer, SymbolsButU)

\* the error a call has ended with, by panic or as its error result
Failure(r) == IF "panic" \in DOMAIN r THEN r.panic ELSE r.err

\* the errors that say a length or a position is out of bounds
BoundErrors == {ErrKOverflow, ErrLengthOverflow, ErrPositionOverflow}

\* the functions that say which k they work on
TakesK ==
    {"Decode", "Reverse", "Complement", "RevComp", "Canonical",
     "LongestPrefix", "HasPrefix", "BaseAt", "Prefix", "Suffix",
     "EncodeFromFormerKmer", "EncodeFromLatterKmer"}

\* C12: Decode, Reverse, Complement, RevComp, Canonical, LongestPrefix,
\* HasPrefix, BaseAt, Prefix, Suffix, EncodeFromFormerKmer and
\* EncodeFromLatterKmer end with ErrKOverflow, ErrLengthOverflow or
\* ErrPositionOverflow and return no result whenever k (for the last two,
\* the length of the windows) is 0, negative or above 32, whatever the other
\* arguments are.
ChecksK ==
    (op \in TakesK /\ arg.k \notin KRange) => Failure(ret) \in BoundErrors

\* C13: from the code Encode returns for k bases over {A,C,G,T}, k in 1..32,
\* every sequence of Reverse, Complement, RevComp, Canonical, forward slides
\* and backward slides with bases over {A,C,G,T} leaves a code of at most
\* 2^(2k) - 1, with no bit above position 2k-1; Prefix(code,k,n) is at most
\* 2^(2n) - 1 and Suffix(code,k,i) at most 2^(2(k-i)) - 1.
CodeInRange ==
    /\ op # "init" =>
        /\ InBases(text)
        /\ kcode.K = klen
        /\ kcode.Code \subseteq FullCode(klen)
        /\ ~Gt(kcode.Code, FullCode(klen))
    /\ op \in {"Encode", "EncodeFromFormerKmer", "EncodeFromLatterKmer"} =>
        ret.err = NoError
    /\ op \in {"Reverse", "Complement", "RevComp", "Canonical"} =>
        /\ ret.panic = NoError
        /\ arg.code \subseteq FullCode(arg.k)
        /\ ret.c \subseteq FullCode(arg.k)
    /\ op = "Prefix" =>
        /\ ret.panic = NoError
        /\ ret.c \subseteq FullCode(arg.n)
    /\ op = "Suffix" =>
        /\ ret.panic = NoError
        /\ ret.c \subseteq FullCode(arg.k - arg.i)

\* a forward slide over a code that is no longer that of the window it
\* leaves, and whose first base is not A, has given a code of k < 32 bases
CodeInRangeWitness ==
    /\ op = "EncodeFromFormerKmer"
    /\ klen > 1
    /\ klen < 32
    /\ arg.leftCode # Encode(arg.leftKmer).code
    /\ (2 * klen - 1) \in arg.leftCode
    /\ ret.err = NoError
    /\ kcode.Code = ret.code
    /\ kcode.Code \subseteq FullCode(klen)

\* s with its bases in reversed order
Reversed(s) == [j \in 1 .. Len(s) |-> s[Len(s) + 1 - j]]

\* the complement of a base: A <-> T, C <-> G
ComplementOf(b) ==
    CASE b = 65 -> 84
      [] b = 84 -> 65
      [] b = 67 -> 71
      [] b = 71 -> 67

\* s with every base replaced by its complement
Complemented(s) == [j \in 1 .. Len(s) |-> ComplementOf(s[j])]

RECURSIVE ReverseLoop(_, _)
\* the code reversed one base at a time: k times, the lowest base of
\* st.code is taken off and put to the low end of st.r
ReverseLoop(k, st) ==
    IF st.i >= k THEN st.r
    ELSE ReverseLoop(k,
            [i |-> st.i + 1,
             code |-> Shr(st.code, 2),
             r |-> Or(Shl(st.r, 2), And(st.code, U64(3)))])

\* C14: for every sequence s of k bases over {A,C,G,T}, k in 1..32,
\* Decode(Reverse(Encode(s),k),k) is s in reversed order and
\* Decode(Complement(Encode(s),k),k) is s with every base replaced by its
\* complement (A<->T, C<->G); the cascade followed by the shift by (32-k)*2
\* gives what a loop of k steps gives. The same holds of every code these
\* calls reach from Encode(s), read through Decode.
SymbolLevel ==
    /\ op = "Reverse" =>
        /\ ret.panic = NoError
        /\ Decode(ret.c, arg.k) =
               [kmer |-> Reversed(Decode(arg.code, arg.k).kmer),
                panic |-> NoError]
        /\ ret.c = ReverseLoop(arg.k, [i |-> 0, code |-> arg.code, r |-> {}])
        /\ MustReverse(arg.code, arg.k) = ret.c
        /\ arg.code = Encode(text).code =>
               Decode(ret.c, arg.k).kmer = Reversed(text)
    /\ op = "Complement" =>
        /\ ret.panic = NoError
        /\ Decode(ret.c, arg.k) =
               [kmer |-> Complemented(Decode(arg.code, arg.k).kmer),
                panic |-> NoError]
        /\ MustComplement(arg.code, arg.k) = ret.c
        /\ arg.code = Encode(text).code =>
               Decode(ret.c, arg.k).kmer = Complemented(text)

\* the code of a 32-mer that is no palindrome has been reversed
SymbolLevelWitness ==
    /\ op = "Reverse"
    /\ arg.k = 32
    /\ arg.code = Encode(text).code
    /\ Reversed(text) # text
    /\ Decode(ret.c, 32).kmer = Reversed(text)

\* C15: Canonical(c,k) = Canonical(RevComp(c,k),k) for every k in 1..32 and
\* every code c <= 2^(2k) - 1: a k-mer and its reverse complement have the
\* same canonical code, RevComp being its own inverse; KmerCode.Canonical
\* of a KmerCode and of its RevComp() are equal too.
StrandIndependent ==
    op \in {"Canonical", "RevComp"} =>
        LET c == arg.kcode.Code
            kk == arg.kcode.K
            rc == RevComp(c, kk)
        IN  /\ ValidArg
            /\ rc.panic = NoError
            /\ RevComp(rc.c, kk) = [c |-> c, panic |-> NoError]
            /\ Canonical(c, kk).panic = NoError
            /\ Canonical(rc.c, kk) = Canonical(c, kk)
            /\ KmerCodeEqual(KmerCodeCanonical(KmerCodeRevComp(arg.kcode)),
                             KmerCodeCanonical(arg.kcode))
            /\ KmerCodeCanonical(ret) = KmerCodeCanonical(arg.kcode)

\* a 32-mer smaller than its reverse complement is its own canonical code,
\* and that of its reverse complement
StrandIndependentWitness ==
    /\ op = "Canonical"
    /\ klen = 32
    /\ ValidArg
    /\ Lt(arg.kcode.Code, RevComp(arg.kcode.Code, 32).c)
    /\ ret = arg.kcode
    /\ Canonical(RevComp(arg.kcode.Code, 32).c, 32).c = ret.Code
====
